---- MODULE Spec2Model ----
(***************************************************************************)
(* Text-to-SQL HTTP service: the connection cache and query executor of    *)
(* Data_Base_Manager.py, the query generator of Query_Generator.py and the *)
(* endpoints of api.py.  One action per endpoint; the database drivers and *)
(* the generative model are the environment, whose outcomes are inputs.    *)
(***************************************************************************)
EXTENDS Integers, Sequences, FiniteSets, TLC

VARIABLES connections, driver, response, obs, threads

vars == <<connections, driver, response, obs, threads>>

\* ------------------------------------------------------------- bounds
\* At most this many connections are ever opened for one target.
MaxConns == 2
\* A result set holds at most this many rows.
MaxRows == 2
\* Worker threads that run the plain def handlers of fast_api.py.
NumThreads == 2

\* ------------------------------------------------------------- values
SupportedTypes == {"SQLite", "PostgreSQL", "MySQL"}

\* Optional[str]: <<>> is None, <<s>> is the string s.
None == <<>>
Some(s) == <<s>>

\* str() of an Optional[str], as an f-string renders it.
PyStr(v) == IF v = None THEN "None" ELSE v[1]

Db(t, n, h) == [db_type |-> t, db_name |-> n, db_host |-> h]

\* The request bodies (DBConfig) the clients send.
DbConfigs ==
    { Db("SQLite", "a", None),
      Db("PostgreSQL", "a_b", None),
      Db("PostgreSQL", "a", Some("b_None")),
      Db("MySQL", "a", Some("h")),
      Db("Oracle", "a", None) }

\* A driver connection object: the target it was opened to and which of the
\* connections opened to that target it is.  NoneConn is Python's None.
NoneConn == [kind |-> "None"]
Conn(db, n) == [kind |-> "conn", db |-> db, serial |-> n]

NoExc == [type |-> "None", msg |-> ""]
Exc(t, m) == [type |-> t, msg |-> m]

\* What a statement does on a live connection: it fails, it runs and has no
\* result set (cursor.description is None), or it runs and has a result set.
ColumnLists == { <<"id", "name">>, <<"x", "x">> }
StmtOutcomes ==
    { [kind |-> "error"], [kind |-> "nodesc"] }
    \cup { [kind |-> "rs", columns |-> c, nrows |-> n] : c \in ColumnLists, n \in 0..MaxRows }

Select1 == [kind |-> "rs", columns |-> <<"1">>, nrows |-> 1]

\* cursor.fetchall(): row i holds 10*i + j in column j.
FetchAll(out) == [i \in 1..out.nrows |-> [j \in 1..Len(out.columns) |-> 10 * i + j]]

\* The catalog a schema query reads: tables with their column details, or a failure.
Catalogs ==
    { << [name |-> "t", columns |-> <<"id (INTEGER)", "n (TEXT)">>],
         [name |-> "u", columns |-> <<>>] >> }
CatalogOutcomes == { [kind |-> "error"] } \cup { [kind |-> "ok", tables |-> c] : c \in Catalogs }

\* The generative model's reply text, or its client raising.
ModelReplies == { [kind |-> "error"] } \cup { [kind |-> "text", text |-> t] : t \in { <<>>, <<" ", "\n">>, <<"S", " ">> } }

\* ------------------------------------------------------------- DatabaseManager
Mgr(c, d) == [connections |-> c, driver |-> d]

conn_key(db) == db.db_type \o "_" \o db.db_name \o "_" \o PyStr(db.db_host)

\* Connections opened so far to a target.
Made(d, db) == { c \in DOMAIN d : c.db = db }

DriverConnectError(t) ==
    CASE t = "SQLite" -> "unable to open database file"
      [] t = "PostgreSQL" -> "could not connect to server"
      [] OTHER -> "Can't connect to MySQL server"

\* _create_connection: a new connection, a ConnectionError, or (no branch
\* taken for an unsupported db_type) None.
_create_connection(m, db, driverOk) ==
    IF db.db_type \in SupportedTypes
    THEN IF driverOk
         THEN [conn |-> Conn(db, Cardinality(Made(m.driver, db)) + 1), exc |-> NoExc]
         ELSE [conn |-> NoneConn,
               exc |-> Exc("ConnectionError",
                           "Failed to connect to database: " \o DriverConnectError(db.db_type))]
    ELSE [conn |-> NoneConn, exc |-> NoExc]

\* A lookup that never finds the key.
CacheMiss(m, key) == FALSE

\* `conn_key not in self.connections`, negated.
CacheHit(m, key) == key \in DOMAIN m.connections

\* get_connection up to its yield: look the key up, create and store on a miss.
Enter(m, db, driverOk) ==
    LET key == conn_key(db)
        hit == CacheHit(m, key)
    IN  IF hit
        THEN [m |-> m, yielded |-> TRUE, conn |-> m.connections[key],
              creates |-> 0, exc |-> NoExc, cachedBefore |-> TRUE]
        ELSE LET r == _create_connection(m, db, driverOk)
             IN  IF r.exc /= NoExc
                 THEN [m |-> m, yielded |-> FALSE, conn |-> NoneConn,
                       creates |-> 1, exc |-> r.exc, cachedBefore |-> FALSE]
                 ELSE [m |-> Mgr((key :> r.conn) @@ m.connections,
                                 IF r.conn = NoneConn THEN m.driver
                                 ELSE (r.conn :> "live") @@ m.driver),
                       yielded |-> TRUE, conn |-> r.conn,
                       creates |-> 1, exc |-> NoExc, cachedBefore |-> FALSE]

\* A finally clause that commits for every dialect.
LeaveCommitAlways(m, db, pending) ==
    LET key == conn_key(db)
        wrapped == IF pending = NoExc THEN NoExc
                   ELSE Exc("ConnectionError", "Database connection failed: " \o pending.msg)
    IN  IF key \notin DOMAIN m.connections
        THEN [exc |-> Exc("KeyError", "'" \o key \o "'"), commits |-> 0]
        ELSE IF m.connections[key] = NoneConn
        THEN [exc |-> Exc("AttributeError", "'NoneType' object has no attribute 'commit'"),
              commits |-> 0]
        ELSE [exc |-> wrapped, commits |-> 1]

\* get_connection after its yield: `pending` is the exception of the try body
\* (raised by the creation, or thrown in by the with block), NoExc when none.
\* The except clause wraps it; the finally clause then looks the key up again
\* and commits when the dialect is SQLite (a commit on an open sqlite3
\* connection is taken to succeed).
Leave(m, db, pending) ==
    LET key == conn_key(db)
        wrapped == IF pending = NoExc THEN NoExc
                   ELSE Exc("ConnectionError", "Database connection failed: " \o pending.msg)
    IN  IF db.db_type = "SQLite"
        THEN IF key \notin DOMAIN m.connections
             THEN [exc |-> Exc("KeyError", "'" \o key \o "'"), commits |-> 0]
             ELSE IF m.connections[key] = NoneConn
             THEN [exc |-> Exc("AttributeError", "'NoneType' object has no attribute 'commit'"),
                   commits |-> 0]
             ELSE [exc |-> wrapped, commits |-> 1]
        ELSE [exc |-> wrapped, commits |-> 0]

\* What one use of get_connection did.
UseRec(db, e, blockExc, l) ==
    [db |-> db, key |-> conn_key(db), cachedBefore |-> e.cachedBefore,
     yielded |-> e.yielded, conn |-> e.conn, creates |-> e.creates,
     state |-> IF e.yielded /\ e.conn /= NoneConn THEN e.m.driver[e.conn] ELSE "none",
     blockExc |-> blockExc, commits |-> l.commits, exc |-> l.exc]

\* conn.cursor() and cursor.execute(sql) on the yielded connection.
Execute(m, conn, out) ==
    IF conn = NoneConn
    THEN [m |-> m, exc |-> Exc("AttributeError", "'NoneType' object has no attribute 'cursor'")]
    ELSE IF m.driver[conn] = "closed"
    THEN [m |-> m, exc |-> Exc("InterfaceError", "connection already closed")]
    ELSE IF m.driver[conn] = "aborted"
    THEN [m |-> m, exc |-> Exc("InFailedSqlTransaction", "current transaction is aborted")]
    ELSE IF out.kind = "error"
    THEN [m |-> Mgr(m.connections,
                    IF conn.db.db_type = "PostgreSQL"
                    THEN [m.driver EXCEPT ![conn] = "aborted"] ELSE m.driver),
          exc |-> Exc("ProgrammingError", "syntax error")]
    ELSE [m |-> m, exc |-> NoExc]

RECURSIVE Join(_, _)
\* sep.join(parts)
Join(parts, sep) ==
    IF parts = <<>> THEN ""
    ELSE IF Len(parts) = 1 THEN parts[1]
    ELSE parts[1] \o sep \o Join(Tail(parts), sep)

\* The schema text block of the _get_*_schema methods: one part per table.
SchemaText(tables) ==
    Join([i \in 1..Len(tables) |->
            "\n  Table: " \o tables[i].name \o "\n"
            \o Join([j \in 1..Len(tables[i].columns) |-> "    - " \o tables[i].columns[j]], "\n")],
         "\n")

\* The with block of get_schema: cursor, then the dialect's catalog queries.
SchemaBlock(m, conn, db, cat) ==
    LET cur == Execute(m, conn, Select1)
    IN  IF conn = NoneConn \/ m.driver[conn] = "closed"
        THEN [m |-> m, exc |-> cur.exc, schema |-> ""]
        ELSE IF db.db_type \notin SupportedTypes
        THEN [m |-> m, exc |-> Exc("ValueError", "Unsupported database type: " \o db.db_type),
              schema |-> ""]
        ELSE LET run == Execute(m, conn, cat)
             IN  [m |-> run.m, exc |-> run.exc,
                  schema |-> IF run.exc = NoExc THEN SchemaText(cat.tables) ELSE ""]

\* An except clause that lets everything but a ConnectionError through.
CaughtConnectionErrorOnly(exc) == exc.type = "ConnectionError"

\* `except Exception` of get_schema: every exception the with statement can
\* raise here is an Exception.
Caught(exc) == TRUE

\* DatabaseManager.get_schema: a success or a failure dict; `raised` is the
\* exception that leaves the method, NoExc when it returns.
get_schema(m, db, driverOk, cat) ==
    LET e == Enter(m, db, driverOk)
        b == IF e.yielded THEN SchemaBlock(e.m, e.conn, db, cat)
             ELSE [m |-> e.m, exc |-> e.exc, schema |-> ""]
        l == Leave(b.m, db, b.exc)
    IN  [m |-> b.m,
         use |-> UseRec(db, e, b.exc, l),
         raised |-> IF l.exc /= NoExc /\ ~Caught(l.exc) THEN l.exc ELSE NoExc,
         result |-> IF l.exc = NoExc
                    THEN [success |-> TRUE, schema |-> b.schema, message |-> ""]
                    ELSE IF Caught(l.exc)
                    THEN [success |-> FALSE, schema |-> "",
                          message |-> "Failed to get schema: " \o l.exc.msg]
                    ELSE [success |-> FALSE, schema |-> "", message |-> ""]]

\* What a call of get_schema gave: the returned dict, or the exception raised.
SchemaObs(s) ==
    [success |-> s.result.success, schema |-> s.result.schema,
     message |-> s.result.message, raised |-> s.raised]

NoneDF == [kind |-> "None"]
DataFrame(rows, columns) == [kind |-> "DataFrame", rows |-> rows, columns |-> columns]

\* The with block of execute_query: execute, read the description, fetch.
QueryBlock(m, conn, out) ==
    LET run == Execute(m, conn, out)
    IN  IF run.exc /= NoExc
        THEN [m |-> run.m, exc |-> run.exc, ret |-> NoneDF, dbExc |-> run.exc]
        ELSE IF out.kind = "nodesc"
        THEN [m |-> run.m, exc |-> Exc("TypeError", "'NoneType' object is not iterable"),
              ret |-> NoneDF, dbExc |-> NoExc]
        ELSE LET rows == FetchAll(out)
             IN  [m |-> run.m, exc |-> NoExc, dbExc |-> NoExc,
                  ret |-> IF rows /= <<>> THEN DataFrame(rows, out.columns) ELSE NoneDF]

\* DatabaseManager.execute_query: a DataFrame, None, or an Exception raised.
execute_query(m, db, driverOk, out) ==
    LET e == Enter(m, db, driverOk)
        b == IF e.yielded THEN QueryBlock(e.m, e.conn, out)
             ELSE [m |-> e.m, exc |-> e.exc, ret |-> NoneDF, dbExc |-> NoExc]
        l == Leave(b.m, db, b.exc)
    IN  [m |-> b.m,
         use |-> UseRec(db, e, b.exc, l),
         ran |-> e.yielded /\ b.dbExc = NoExc,
         out |-> out,
         ret |-> IF l.exc = NoExc THEN b.ret ELSE NoneDF,
         exc |-> IF l.exc = NoExc THEN NoExc
                 ELSE Exc("Exception", "Query execution failed: " \o l.exc.msg)]

\* results.to_dict(orient="records"): one dict per row, keyed by column name
\* (of two columns with one name the later one's value stays).
to_dict_records(df) ==
    [i \in 1..Len(df.rows) |->
        [c \in {df.columns[j] : j \in 1..Len(df.columns)} |->
            LET last == CHOOSE j \in 1..Len(df.columns) :
                            /\ df.columns[j] = c
                            /\ \A k \in 1..Len(df.columns) : df.columns[k] = c => k <= j
            IN  df.rows[i][last]]]

\* ------------------------------------------------------------- QueryGenerator
\* str.isspace(): at least one character and all of them whitespace.
isspace(text) == text /= <<>> /\ \A i \in 1..Len(text) : text[i] \in {" ", "\n", "\t"}

\* QueryGenerator.generate_query: the model's text, or the client's exception.
generate_query(reply) ==
    IF reply.kind = "error"
    THEN [exc |-> Exc("GoogleAPIError", "model call failed"), text |-> <<>>]
    ELSE [exc |-> NoExc, text |-> reply.text]

\* ------------------------------------------------------------- api.py
HttpError(op, db, status, detail) ==
    [op |-> op, db |-> db, status |-> status, detail |-> detail, body |-> [detail |-> detail]]
HttpOk(op, db, body) ==
    [op |-> op, db |-> db, status |-> 200, detail |-> "", body |-> body]

Obs(uses, schema, query, model) ==
    [uses |-> uses, schema |-> schema, query |-> query, model |-> model]

\* str() of an HTTPException.
HttpStr(status, detail) ==
    (CASE status = 400 -> "400" [] status = 500 -> "500" [] OTHER -> "503") \o ": " \o detail

\* POST /connect
connect_db(m, db, driverOk) ==
    LET e == Enter(m, db, driverOk)
        b == IF e.yielded THEN Execute(e.m, e.conn, Select1) ELSE [m |-> e.m, exc |-> e.exc]
        l == Leave(b.m, db, b.exc)
    IN  [m |-> b.m,
         obs |-> Obs(<<UseRec(db, e, b.exc, l)>>, <<>>, <<>>, <<>>),
         response |->
            IF l.exc = NoExc
            THEN HttpOk("connect", db,
                        [success |-> TRUE,
                         message |-> "Successfully connected to " \o db.db_type \o " database"])
            ELSE IF l.exc.type = "ConnectionError"
            THEN HttpError("connect", db, 503, "Database connection failed: " \o l.exc.msg)
            ELSE HttpError("connect", db, 500, "An error occurred: " \o l.exc.msg)]

\* POST /get_schema: the HTTPException raised in the try is caught by its own
\* except Exception.
api_get_schema(m, db, driverOk, cat) ==
    LET s == get_schema(m, db, driverOk, cat)
    IN  [m |-> s.m,
         obs |-> Obs(<<s.use>>, <<SchemaObs(s)>>, <<>>, <<>>),
         response |->
            IF ~s.result.success
            THEN HttpError("get_schema", db, 500,
                           "Failed to retrieve schema: " \o HttpStr(400, s.result.message))
            ELSE HttpOk("get_schema", db, s.result)]

\* A check that lets a whitespace-only reply through.
InvalidQueryEmptyOnly(text) == text = <<>>

\* `not query or query.isspace()`
InvalidQuery(text) == text = <<>> \/ isspace(text)

\* POST /generate_query
generate_sql(m, db, driverOk, cat, reply) ==
    LET s == get_schema(m, db, driverOk, cat)
        g == generate_query(reply)
    IN  [m |-> s.m,
         obs |-> Obs(<<s.use>>, <<SchemaObs(s)>>, <<>>, IF s.result.success THEN <<reply>> ELSE <<>>),
         response |->
            IF ~s.result.success
            THEN HttpError("generate_query", db, 400, s.result.message)
            ELSE IF g.exc /= NoExc
            THEN HttpError("generate_query", db, 500, "Query generation failed: " \o g.exc.msg)
            ELSE IF InvalidQuery(g.text)
            THEN HttpError("generate_query", db, 400, "Failed to generate valid SQL query")
            ELSE HttpOk("generate_query", db,
                        [success |-> TRUE, sql_query |-> g.text, db_type |-> db.db_type])]

\* A body whose row_count is the width of the frame, not its length.
ResultsBodyWidth(results) ==
    [success |-> TRUE,
     results |-> IF results /= NoneDF THEN to_dict_records(results) ELSE <<>>,
     row_count |-> IF results /= NoneDF THEN Len(results.columns) ELSE 0]

\* The success body of /execute_query and /execute_raw_query.
ResultsBody(results) ==
    [success |-> TRUE,
     results |-> IF results /= NoneDF THEN to_dict_records(results) ELSE <<>>,
     row_count |-> IF results /= NoneDF THEN Len(results.rows) ELSE 0]

QueryObs(q) == [ran |-> q.ran, out |-> q.out, ret |-> q.ret, exc |-> q.exc]

\* POST /execute_query
execute_sql(m, db, driverOk, cat, out) ==
    LET s == get_schema(m, db, driverOk, cat)
        q == execute_query(s.m, db, driverOk, out)
    IN  IF ~s.result.success
        THEN [m |-> s.m,
              obs |-> Obs(<<s.use>>, <<SchemaObs(s)>>, <<>>, <<>>),
              response |-> HttpError("execute_query", db, 400, s.result.message)]
        ELSE [m |-> q.m,
              obs |-> Obs(<<s.use, q.use>>, <<SchemaObs(s)>>, <<QueryObs(q)>>, <<>>),
              response |->
                 IF q.exc /= NoExc
                 THEN HttpError("execute_query", db, 500, "Query execution failed: " \o q.exc.msg)
                 ELSE HttpOk("execute_query", db, ResultsBody(q.ret))]

\* POST /execute_raw_query
execute_raw_sql(m, db, driverOk, out) ==
    LET q == execute_query(m, db, driverOk, out)
    IN  [m |-> q.m,
         obs |-> Obs(<<q.use>>, <<>>, <<QueryObs(q)>>, <<>>),
         response |->
            IF q.exc /= NoExc
            THEN HttpError("execute_raw_query", db, 500,
                           "Raw query execution failed: " \o q.exc.msg)
            ELSE HttpOk("execute_raw_query", db, ResultsBody(q.ret))]

\* ------------------------------------------------------------- the state machine
NoDb == Db("", "", None)

\* A worker thread: where it is in get_connection, the request it serves, the
\* connection it created and has not stored yet, the connection it was yielded.
Threads == 1..NumThreads
Idle == [pc |-> "idle", db |-> NoDb, local |-> NoneConn, conn |-> NoneConn]

Init ==
    /\ connections = << >>
    /\ driver = << >>
    /\ threads = [t \in Threads |-> Idle]
    /\ response = [op |-> "none", db |-> NoDb, status |-> 0, detail |-> "", body |-> [detail |-> ""]]
    /\ obs = Obs(<<>>, <<>>, <<>>, <<>>)

\* The handler's effect on the manager and what the client gets back.
Handled(r) ==
    /\ connections' = r.m.connections
    /\ driver' = r.m.driver
    /\ response' = r.response
    /\ obs' = r.obs
    /\ UNCHANGED threads

\* The driver's answer to a connect call; none is made when the key is cached.
ConnectOutcomes(db) == IF conn_key(db) \in DOMAIN connections THEN {TRUE} ELSE BOOLEAN

\* No more than MaxConns connections are opened to one target.
Bounded(db) == Cardinality(Made(driver, db)) < MaxConns

\* Whether the connection the request gets can run a statement: outcomes of
\* statements and of model calls are drawn only where the handler gets to them.
Usable(db, driverOk) ==
    LET e == Enter(Mgr(connections, driver), db, driverOk)
    IN  e.yielded /\ e.conn /= NoneConn /\ e.m.driver[e.conn] = "live"

Unused == { [kind |-> "error"] }
CatalogInputs(db, driverOk) == IF Usable(db, driverOk) THEN CatalogOutcomes ELSE Unused
StmtInputs(db, driverOk) == IF Usable(db, driverOk) THEN StmtOutcomes ELSE Unused
StmtInputsAfter(db, driverOk, cat) ==
    IF cat.kind = "ok" THEN StmtInputs(db, driverOk) ELSE Unused
ReplyInputsAfter(cat) == IF cat.kind = "ok" THEN ModelReplies ELSE Unused

ConnectDb ==
    \E db \in DbConfigs : \E driverOk \in ConnectOutcomes(db) :
        /\ Bounded(db)
        /\ Handled(connect_db(Mgr(connections, driver), db, driverOk))

GetSchema ==
    \E db \in DbConfigs : \E driverOk \in ConnectOutcomes(db) :
        \E cat \in CatalogInputs(db, driverOk) :
            /\ Bounded(db)
            /\ Handled(api_get_schema(Mgr(connections, driver), db, driverOk, cat))

GenerateSql ==
    \E db \in DbConfigs : \E driverOk \in ConnectOutcomes(db) :
        \E cat \in CatalogInputs(db, driverOk) : \E reply \in ReplyInputsAfter(cat) :
            /\ Bounded(db)
            /\ Handled(generate_sql(Mgr(connections, driver), db, driverOk, cat, reply))

ExecuteSql ==
    \E db \in DbConfigs : \E driverOk \in ConnectOutcomes(db) :
        \E cat \in CatalogInputs(db, driverOk) : \E out \in StmtInputsAfter(db, driverOk, cat) :
            /\ Bounded(db)
            /\ Handled(execute_sql(Mgr(connections, driver), db, driverOk, cat, out))

ExecuteRawSql ==
    \E db \in DbConfigs : \E driverOk \in ConnectOutcomes(db) :
        \E out \in StmtInputs(db, driverOk) :
            /\ Bounded(db)
            /\ Handled(execute_raw_sql(Mgr(connections, driver), db, driverOk, out))

\* The server drops a PostgreSQL or MySQL connection the manager still caches.
DropConnection ==
    \E c \in DOMAIN driver :
        /\ c.db.db_type \in {"PostgreSQL", "MySQL"}
        /\ driver[c] /= "closed"
        /\ driver' = [driver EXCEPT ![c] = "closed"]
        /\ UNCHANGED <<connections, response, obs, threads>>

Next ==
    \/ ConnectDb
    \/ GetSchema
    \/ GenerateSql
    \/ ExecuteSql
    \/ ExecuteRawSql
    \/ DropConnection

Spec == Init /\ [][Next]_vars


\* ------------------------------------------------------------- fast_api.py
\* The handlers of fast_api.py are plain def functions: the framework runs
\* each on a worker thread, and the threads interleave between the lines of
\* its own DatabaseManager.get_connection.

\* The request bodies sent to the fast_api.py server.
FastDbConfigs == { Db("PostgreSQL", "a_b", None), Db("MySQL", "a", Some("h")) }

\* POST /connect: get_connection is called and its context manager is never
\* entered, so no line of its body runs.
fast_connect_db(db) ==
    HttpOk("fast_connect", db, [success |-> TRUE, message |-> "Connection successful!"])

FastConnectDb ==
    \E db \in FastDbConfigs :
        /\ response' = fast_connect_db(db)
        /\ obs' = Obs(<<>>, <<>>, <<>>, <<>>)
        /\ UNCHANGED <<connections, driver, threads>>

\* POST /get_schema answers 200 around whatever dict get_schema returned.
fast_get_schema(db, result) ==
    HttpOk("fast_get_schema", db, [success |-> TRUE, schema |-> result])

\* POST /get_schema arrives on thread t.
FastStart(t) ==
    \E db \in FastDbConfigs :
        /\ threads[t].pc = "idle"
        /\ Bounded(db)
        /\ threads' = [threads EXCEPT ![t] = [Idle EXCEPT !.pc = "check", !.db = db]]
        /\ UNCHANGED <<connections, driver, response, obs>>

\* `if conn_key not in self.connections`
FastCheck(t) ==
    /\ threads[t].pc = "check"
    /\ threads' = [threads EXCEPT ![t].pc =
                      IF CacheHit(Mgr(connections, driver), conn_key(threads[t].db))
                      THEN "yield" ELSE "create"]
    /\ UNCHANGED <<connections, driver, response, obs>>

\* The right-hand side of the store: self._create_connection(db_data).  When
\* it raises, get_connection re-raises and get_schema returns a failure dict.
FastCreate(t) ==
    \E driverOk \in BOOLEAN :
        LET db == threads[t].db
            r == _create_connection(Mgr(connections, driver), db, driverOk)
        IN  /\ threads[t].pc = "create"
            /\ IF r.exc /= NoExc
               THEN /\ threads' = [threads EXCEPT ![t] = Idle]
                    /\ response' = fast_get_schema(db,
                           [success |-> FALSE, schema |-> "",
                            message |-> "Failed to get schema: " \o r.exc.msg])
                    /\ UNCHANGED driver
               ELSE /\ threads' = [threads EXCEPT ![t].pc = "store", ![t].local = r.conn]
                    /\ driver' = IF r.conn = NoneConn THEN driver
                                 ELSE (r.conn :> "live") @@ driver
                    /\ UNCHANGED response
            /\ UNCHANGED <<connections, obs>>

\* self.connections[conn_key] = <the connection created>
FastStore(t) ==
    /\ threads[t].pc = "store"
    /\ connections' = (conn_key(threads[t].db) :> threads[t].local) @@ connections
    /\ threads' = [threads EXCEPT ![t].pc = "yield"]
    /\ UNCHANGED <<driver, response, obs>>

\* yield self.connections[conn_key]
FastYield(t) ==
    /\ threads[t].pc = "yield"
    /\ threads' = [threads EXCEPT ![t].pc = "block",
                                  ![t].conn = connections[conn_key(threads[t].db)]]
    /\ UNCHANGED <<connections, driver, response, obs>>

\* The with block of fast_api's get_schema: cursor, then _get_schema_details,
\* which wraps what its queries raise and runs no query for an unsupported type.
FastSchemaBlock(m, conn, db, cat) ==
    LET cur == Execute(m, conn, Select1)
    IN  IF conn = NoneConn \/ m.driver[conn] = "closed"
        THEN [m |-> m, exc |-> cur.exc, schema |-> ""]
        ELSE IF db.db_type \notin SupportedTypes
        THEN [m |-> m, exc |-> NoExc, schema |-> ""]
        ELSE LET run == Execute(m, conn, cat)
             IN  [m |-> run.m,
                  exc |-> IF run.exc = NoExc THEN NoExc
                          ELSE Exc("Exception", "Error fetching schema details: " \o run.exc.msg),
                  schema |-> IF run.exc = NoExc THEN SchemaText(cat.tables) ELSE ""]

\* The block runs on the yielded connection and the handler answers.
FastBlock(t) ==
    LET db == threads[t].db
        conn == threads[t].conn
        live == conn /= NoneConn /\ driver[conn] = "live"
    IN  \E cat \in (IF live THEN CatalogOutcomes ELSE Unused) :
            LET b == FastSchemaBlock(Mgr(connections, driver), conn, db, cat)
            IN  /\ threads[t].pc = "block"
                /\ driver' = b.m.driver
                /\ response' = fast_get_schema(db,
                       IF b.exc = NoExc
                       THEN [success |-> TRUE, schema |-> b.schema, message |-> ""]
                       ELSE [success |-> FALSE, schema |-> "",
                             message |-> "Failed to get schema: " \o b.exc.msg])
                /\ threads' = [threads EXCEPT ![t] = Idle]
                /\ UNCHANGED <<connections, obs>>

FastNext ==
    \/ FastConnectDb
    \/ \E t \in Threads : FastStart(t)
    \/ \E t \in Threads : FastCheck(t)
    \/ \E t \in Threads : FastCreate(t)
    \/ \E t \in Threads : FastStore(t)
    \/ \E t \in Threads : FastYield(t)
    \/ \E t \in Threads : FastBlock(t)

FastSpec == Init /\ [][FastNext]_vars

\* ------------------------------------------------------------- properties
Keys == { conn_key(db) : db \in DbConfigs }
Uses(o) == { o.uses[i] : i \in DOMAIN o.uses }
Queries(o) == { o.query[i] : i \in DOMAIN o.query }
Schemas(o) == { o.schema[i] : i \in DOMAIN o.schema }
CreatedFor(d, k) == { c \in DOMAIN d : conn_key(c.db) = k }
EndsWith(text, suffix) ==
    /\ Len(text) >= Len(suffix)
    /\ SubSeq(text, Len(text) - Len(suffix) + 1, Len(text)) = suffix

\* C1: over any sequence of operations at most one connection is created per
\* key, a cached entry is never replaced, and a use of get_connection that
\* finds its key cached creates nothing and yields the cached object.
C1_OneConnectionPerKey ==
    [][ /\ \A k \in Keys : Cardinality(CreatedFor(driver', k)) <= 1
        /\ \A k \in DOMAIN connections :
              k \in DOMAIN connections' /\ connections'[k] = connections[k]
        /\ \A u \in Uses(obs') :
              u.cachedBefore => u.yielded /\ u.creates = 0 /\ u.conn = connections'[u.key]
      ]_vars

\* A request is served by the connection an earlier request created.
C1_Witness ==
    \E u \in Uses(obs) : u.cachedBefore /\ u.yielded /\ u.conn /= NoneConn /\ u.creates = 0

\* C2: every cached value is a live connection, and get_connection never
\* yields a closed, broken or absent one.
C2_CacheHoldsLiveConnections ==
    /\ \A k \in DOMAIN connections :
          connections[k] /= NoneConn /\ driver[connections[k]] = "live"
    /\ \A u \in Uses(obs) : u.yielded => u.state = "live"

\* C3: a request is only ever served by a connection opened to its own
\* (dialect, database name, host) triple.
C3_DistinctTriplesDistinctConnections ==
    \A u \in Uses(obs) : (u.yielded /\ u.conn /= NoneConn) => u.conn.db = u.db

\* C4: when the database ran the statement without error, execute_query does
\* not raise and the execute endpoints answer success.
C4_ExecutedStatementSucceeds ==
    \A q \in Queries(obs) :
        q.ran => /\ q.exc = NoExc
                 /\ response.status = 200
                 /\ response.body.success

\* C5: a result set with rows comes back whole under the cursor's column
\* names, one record per row and row_count the number of records; one with no
\* rows comes back as None, results [] and row_count 0.
C5_RowsAndRowCount ==
    \A q \in Queries(obs) :
        (q.ran /\ q.out.kind = "rs") =>
            /\ q.exc = NoExc
            /\ response.status = 200
            /\ response.body.row_count = Len(response.body.results)
            /\ IF q.out.nrows >= 1
               THEN /\ q.ret = DataFrame(FetchAll(q.out), q.out.columns)
                    /\ Len(response.body.results) = q.out.nrows
                    /\ \A i \in 1..q.out.nrows :
                          /\ DOMAIN response.body.results[i]
                                = { q.out.columns[j] : j \in 1..Len(q.out.columns) }
                          /\ \A c \in DOMAIN response.body.results[i] :
                                \E j \in 1..Len(q.out.columns) :
                                    /\ q.out.columns[j] = c
                                    /\ response.body.results[i][c] = 10 * i + j
               ELSE /\ q.ret = NoneDF
                    /\ response.body.results = <<>>
                    /\ response.body.row_count = 0

\* /execute_query answered a result set of two rows or more.
C5_Witness ==
    /\ response.op = "execute_query"
    /\ response.status = 200
    /\ response.body.row_count >= 2
    /\ \E q \in Queries(obs) : q.ran /\ q.out.kind = "rs" /\ q.ret /= NoneDF

\* A zero-row result set was answered.
C5_WitnessEmpty ==
    /\ response.status = 200
    /\ \E q \in Queries(obs) : q.ran /\ q.out.kind = "rs" /\ q.out.nrows = 0

\* C6: /connect answers 503 whenever the connection cannot be established, and
\* 500 only for errors that are not connection failures.
C6_ConnectFailureIs503 ==
    response.op = "connect" =>
        \A u \in Uses(obs) :
            /\ (u.creates = 1 /\ ~u.yielded) => response.status = 503
            /\ response.status = 500 => ~(u.creates = 1 /\ ~u.yielded)

\* C7: /get_schema answers a schema failure with 400 and the failure message.
C7_SchemaFailureIs400 ==
    response.op = "get_schema" =>
        \A r \in Schemas(obs) :
            ~r.success => response.status = 400 /\ response.detail = r.message

\* C8: /generate_query calls the model only after the schema retrieval
\* succeeded; a schema failure is answered 400 with no model call, and an empty
\* or whitespace-only reply is answered 400.
C8_ModelAfterSchema ==
    response.op = "generate_query" =>
        \A r \in Schemas(obs) :
            /\ obs.model /= <<>> => r.success
            /\ ~r.success => response.status = 400 /\ obs.model = <<>>
            /\ \A i \in DOMAIN obs.model :
                  (/\ obs.model[i].kind = "text"
                   /\ \A j \in DOMAIN obs.model[i].text : obs.model[i].text[j] \in {" ", "\n", "\t"})
                  => response.status = 400

\* A whitespace-only reply was refused.
C8_Witness ==
    /\ response.op = "generate_query"
    /\ response.status = 400
    /\ \E i \in DOMAIN obs.model : obs.model[i].kind = "text" /\ obs.model[i].text /= <<>>

\* A schema failure was answered without a model call.
C8_WitnessSchemaFailure ==
    /\ response.op = "generate_query"
    /\ response.status = 400
    /\ obs.model = <<>>
    /\ \E r \in Schemas(obs) : ~r.success

\* C9: get_schema with an unsupported db_type fails with a message saying
\* 'Unsupported database type: <db_type>' and caches nothing.
C9_UnsupportedTypeReported ==
    \A r \in Schemas(obs) :
        LET u == obs.uses[1]
        IN  u.db.db_type \notin SupportedTypes =>
                /\ ~r.success
                /\ EndsWith(r.message, "Unsupported database type: " \o u.db.db_type)
                /\ u.key \notin DOMAIN connections

\* C10: a SQLite use of get_connection ends with exactly one commit, and the
\* error that leaves it is the one of the block or of the creation.
C10_SQLiteCommitsOnce ==
    \A u \in Uses(obs) :
        u.db.db_type = "SQLite" =>
            /\ u.commits = 1
            /\ u.exc = IF u.blockExc = NoExc THEN NoExc
                       ELSE Exc("ConnectionError", "Database connection failed: " \o u.blockExc.msg)

StartsWith(text, prefix) ==
    /\ Len(text) >= Len(prefix)
    /\ SubSeq(text, 1, Len(prefix)) = prefix

\* C11: get_schema never raises; it returns a success dict with the schema
\* text or a failure dict whose message starts with 'Failed to get schema: '.
C11_GetSchemaNeverRaises ==
    \A r \in Schemas(obs) :
        /\ r.raised = NoExc
        /\ \/ r.success /\ r.message = ""
           \/ ~r.success /\ r.schema = "" /\ StartsWith(r.message, "Failed to get schema: ")

\* get_schema was called for a SQLite file that cannot be opened: the KeyError
\* of get_connection's finally clause came back as a failure dict.
C11_Witness ==
    /\ \E r \in Schemas(obs) : ~r.success
    /\ obs.uses /= <<>>
    /\ obs.uses[1].db.db_type = "SQLite"
    /\ obs.uses[1].exc.type = "KeyError"

\* A catalog query failed on a connected target.
C11_WitnessCatalog ==
    /\ \E r \in Schemas(obs) : ~r.success
    /\ obs.uses /= <<>>
    /\ obs.uses[1].yielded /\ obs.uses[1].state = "live"

\* C12: of the requests handled concurrently for one key at most one creates
\* a connection, and each of them uses the connection the cache holds.
C12_OneCreationUnderConcurrency ==
    /\ \A k \in Keys : Cardinality(CreatedFor(driver, k)) <= 1
    /\ \A t \in Threads :
          threads[t].pc = "block" =>
              threads[t].conn = connections[conn_key(threads[t].db)]

\* C13: fast_api's /connect answers success only when a connection to the
\* requested database exists in the cache, and 400 otherwise.
C13_FastConnectReflectsConnection ==
    response.op = "fast_connect" =>
        LET key == conn_key(response.db)
            established == key \in DOMAIN connections /\ connections[key] /= NoneConn
        IN  /\ (response.status = 200 /\ response.body.success) => established
            /\ ~established => response.status = 400

\* C14: no step removes or replaces a cached entry, also when the operation
\* on the connection failed; no handler closes a connection (one becomes closed
\* only when the server drops it, a step that answers no request); and a
\* PostgreSQL or MySQL use of get_connection commits nothing.
C14_CacheOnlyGrows ==
    [][ /\ \A k \in DOMAIN connections :
              k \in DOMAIN connections' /\ connections'[k] = connections[k]
        /\ \A c \in DOMAIN driver :
              /\ c \in DOMAIN driver'
              /\ (driver'[c] = "closed" /\ driver[c] /= "closed")
                    => (connections' = connections /\ response' = response /\ obs' = obs)
        /\ \A u \in Uses(obs') :
              u.db.db_type \in {"PostgreSQL", "MySQL"} => u.commits = 0
      ]_vars

\* A statement failed on a cached PostgreSQL connection, which is still the
\* cached one, uncommitted.
C14_Witness ==
    \E u \in Uses(obs) :
        /\ u.db.db_type = "PostgreSQL"
        /\ u.cachedBefore /\ u.yielded /\ u.conn /= NoneConn
        /\ u.blockExc /= NoExc
        /\ u.commits = 0
        /\ connections[u.key] = u.conn
        /\ driver[u.conn] = "aborted"

====
